---- MODULE Spec2Model ----
(***************************************************************************)
(* Stock-transaction subsystem of the Alfamart stock management backend:   *)
(* the product stock ledger (models/product.py), the transaction variants  *)
(* and their template-method processing (models/stock_transaction.py) and  *)
(* the request handlers that drive them (routes/product.py,                *)
(* routes/stock_transaction.py).                                           *)
(*                                                                         *)
(* An optional value (Python None or a value) is a sequence of length 0    *)
(* or 1.  Strings that the code normalises (reference numbers) are         *)
(* sequences of characters.  Money is counted in whole units.              *)
(***************************************************************************)
EXTENDS Integers, Sequences, FiniteSets, TLC

VARIABLES
    products,   \* table 'products': id -> [stock_quantity, minimum_stock, maximum_stock]
    txns,       \* table 'stock_transactions': id -> transaction record (the
                \* free-text columns notes and processed_by are left out)
    last,       \* the request handled last and its outcome (history)
    sessions    \* per request in flight: the objects its database session holds

vars == <<products, txns, last, sessions>>

----------------------------------------------------------------------------
(* Bounds *)

NumProducts == 1     \* products in the store
LedgerProducts == 2  \* products in the store when only the ledger is exercised
MaxLimit == 2        \* maximum_stock of a product ranges over 0..MaxLimit
MaxQty == 2          \* request quantities range over -MaxQty..MaxQty
MaxTxns == 2         \* rows the stock_transactions table may hold
NumRequests == 2     \* requests the server may be handling at the same time

\* Product.query.all() ids
ProductIds == DOMAIN products
QtyInputs == (0 - MaxQty)..MaxQty

None == <<>>
Some(x) == <<x>>

abs(n) == IF n < 0 THEN 0 - n ELSE n

Max(S) == CHOOSE m \in S : \A n \in S : n <= m

----------------------------------------------------------------------------
(* Text: reference numbers *)

upper_char(c) ==
    CASE c = "t" -> "T"
      [] c = "x" -> "X"
      [] OTHER -> c

upper(s) == [i \in 1..Len(s) |-> upper_char(s[i])]

RECURSIVE lstrip(_)
lstrip(s) == IF s # <<>> /\ Head(s) = " " THEN lstrip(Tail(s)) ELSE s

RECURSIVE rstrip(_)
rstrip(s) ==
    IF s # <<>> /\ s[Len(s)] = " " THEN rstrip(SubSeq(s, 1, Len(s) - 1)) ELSE s

strip(s) == rstrip(lstrip(s))

----------------------------------------------------------------------------
(* Product stock ledger (models/product.py) *)

\* Product.__init__ : a product is created with no stock.
Product(minimum_stock, maximum_stock) ==
    [stock_quantity |-> 0,
     minimum_stock |-> minimum_stock,
     maximum_stock |-> maximum_stock]

\* A variant of add_stock without the check of the quantity's sign.
add_stock_unsigned(product, quantity) ==
    LET new_quantity == product.stock_quantity + quantity
    IN  IF new_quantity > product.maximum_stock
        THEN [error |-> "CapacityExceeded", product |-> product]
        ELSE [error |-> "",
              product |-> [product EXCEPT !.stock_quantity = new_quantity]]

\* A variant of add_stock that refuses to fill the product to its maximum.
add_stock_strict(product, quantity) ==
    IF quantity <= 0
    THEN [error |-> "InvalidArgument", product |-> product]
    ELSE LET new_quantity == product.stock_quantity + quantity
         IN  IF new_quantity >= product.maximum_stock
             THEN [error |-> "CapacityExceeded", product |-> product]
             ELSE [error |-> "",
                   product |-> [product EXCEPT !.stock_quantity = new_quantity]]

\* A variant of add_stock without the capacity check.
add_stock_unbounded(product, quantity) ==
    IF quantity <= 0
    THEN [error |-> "InvalidArgument", product |-> product]
    ELSE [error |-> "",
          product |-> [product EXCEPT
                          !.stock_quantity = product.stock_quantity + quantity]]

\* A variant of add_stock that writes the new quantity before checking it.
add_stock_write_first(product, quantity) ==
    IF quantity <= 0
    THEN [error |-> "InvalidArgument", product |-> product]
    ELSE LET new_quantity == product.stock_quantity + quantity
             written == [product EXCEPT !.stock_quantity = new_quantity]
         IN  IF new_quantity > product.maximum_stock
             THEN [error |-> "CapacityExceeded", product |-> written]
             ELSE [error |-> "", product |-> written]

\* Product.add_stock : error is "" on success; product is the object as the
\* call leaves it.
add_stock(product, quantity) ==
    IF quantity <= 0
    THEN [error |-> "InvalidArgument", product |-> product]
    ELSE LET new_quantity == product.stock_quantity + quantity
         IN  IF new_quantity > product.maximum_stock
             THEN [error |-> "CapacityExceeded", product |-> product]
             ELSE [error |-> "",
                   product |-> [product EXCEPT !.stock_quantity = new_quantity]]

\* A variant of reduce_stock that refuses to take the whole stock.
reduce_stock_strict(product, quantity) ==
    IF quantity <= 0
    THEN [error |-> "InvalidArgument", product |-> product]
    ELSE IF quantity >= product.stock_quantity
         THEN [error |-> "InsufficientStock", product |-> product]
         ELSE [error |-> "",
               product |-> [product EXCEPT
                               !.stock_quantity = product.stock_quantity - quantity]]

\* A variant of reduce_stock without the availability check.
reduce_stock_unchecked(product, quantity) ==
    IF quantity <= 0
    THEN [error |-> "InvalidArgument", product |-> product]
    ELSE [error |-> "",
          product |-> [product EXCEPT
                          !.stock_quantity = product.stock_quantity - quantity]]

\* Product.reduce_stock
reduce_stock(product, quantity) ==
    IF quantity <= 0
    THEN [error |-> "InvalidArgument", product |-> product]
    ELSE IF quantity > product.stock_quantity
         THEN [error |-> "InsufficientStock", product |-> product]
         ELSE [error |-> "",
               product |-> [product EXCEPT
                               !.stock_quantity = product.stock_quantity - quantity]]

\* Product.check_availability
check_availability(product, required_quantity) ==
    product.stock_quantity >= required_quantity

\* Product.set_stock_limits : the limits are checked against each other only.
set_stock_limits(product, minimum, maximum) ==
    IF minimum < 0
    THEN [error |-> "InvalidArgument", product |-> product]
    ELSE IF maximum < minimum
    THEN [error |-> "InvalidArgument", product |-> product]
    ELSE [error |-> "",
          product |-> [product EXCEPT !.minimum_stock = minimum,
                                      !.maximum_stock = maximum]]

\* A variant of get_stock_status that looks at the maximum before the minimum.
get_stock_status_max_first(product) ==
    IF product.stock_quantity = 0 THEN "OUT_OF_STOCK"
    ELSE IF product.stock_quantity >= product.maximum_stock THEN "OVERSTOCK"
    ELSE IF product.stock_quantity <= product.minimum_stock THEN "LOW_STOCK"
    ELSE "NORMAL"

\* Product.get_stock_status
get_stock_status(product) ==
    IF product.stock_quantity = 0 THEN "OUT_OF_STOCK"
    ELSE IF product.stock_quantity <= product.minimum_stock THEN "LOW_STOCK"
    ELSE IF product.stock_quantity >= product.maximum_stock THEN "OVERSTOCK"
    ELSE "NORMAL"

\* Product.validate : the checks on the stock limits (the other fields are
\* not part of the record).
Product_validate(product) ==
    (IF product.minimum_stock < 0 THEN <<"MinimumNegative">> ELSE <<>>)
    \o (IF product.maximum_stock < product.minimum_stock
        THEN <<"MaximumBelowMinimum">> ELSE <<>>)

----------------------------------------------------------------------------
(* Transactions (models/stock_transaction.py) *)

\* TransactionType : the declared tags.
TransactionType == {"STOCK_IN", "STOCK_OUT", "ADJUSTMENT", "TRANSFER", "RETURN"}

\* StockTransaction.set_reference_number : the stored form, trimmed and uppercased.
set_reference_number(ref_number) == upper(strip(ref_number))

\* StockTransaction.set_notes / set_processed_by : an optional text, stored
\* trimmed; a missing or empty one is stored as None.
set_notes(notes) ==
    IF notes = None \/ notes[1] = <<>> THEN None ELSE Some(strip(notes[1]))

set_processed_by(user) ==
    IF user = None \/ user[1] = <<>> THEN None ELSE Some(strip(user[1]))

\* StockTransaction.__init__ : the setters raise ValueError (InvalidArgument)
\* on a short reference, a zero quantity or a negative unit cost.  The
\* constructor is called without notes and processed_by.
StockTransaction(reference_number, product_id, quantity, unit_cost) ==
    IF reference_number = <<>> \/ Len(strip(reference_number)) < 3
    THEN [error |-> "InvalidArgument", transaction |-> None]
    ELSE IF quantity = 0
    THEN [error |-> "InvalidArgument", transaction |-> None]
    ELSE IF unit_cost # None /\ unit_cost[1] < 0
    THEN [error |-> "InvalidArgument", transaction |-> None]
    ELSE [error |-> "",
          transaction |-> Some([transaction_type |-> "",
                                reference_number |-> set_reference_number(reference_number),
                                product_id |-> product_id,
                                quantity |-> quantity,
                                unit_cost |-> unit_cost,
                                notes |-> None,
                                processed_by |-> None,
                                is_processed |-> FALSE])]

\* The subclass constructors call the base one and then set the tag.
Tagged(built, tag) ==
    IF built.error # "" THEN built
    ELSE [built EXCEPT !.transaction = Some([built.transaction[1] EXCEPT
                                                !.transaction_type = tag])]

\* StockInTransaction.__init__ : the quantity is passed on as given.
StockInTransaction(reference_number, product_id, quantity, unit_cost) ==
    Tagged(StockTransaction(reference_number, product_id, quantity, unit_cost),
           "STOCK_IN")

\* StockOutTransaction.__init__ : stores -abs(quantity), no unit cost.
StockOutTransaction(reference_number, product_id, quantity) ==
    Tagged(StockTransaction(reference_number, product_id, 0 - abs(quantity), None),
           "STOCK_OUT")

\* StockAdjustmentTransaction.__init__ : signed as given, no unit cost.
StockAdjustmentTransaction(reference_number, product_id, adjustment_quantity) ==
    Tagged(StockTransaction(reference_number, product_id, adjustment_quantity, None),
           "ADJUSTMENT")

\* A variant of the factory that builds an adjustment for every other tag.
create_transaction_lenient(transaction_type, reference_number, product_id, quantity, unit_cost) ==
    IF transaction_type = "STOCK_IN"
    THEN StockInTransaction(reference_number, product_id, quantity, unit_cost)
    ELSE IF transaction_type = "STOCK_OUT"
    THEN StockOutTransaction(reference_number, product_id, quantity)
    ELSE StockAdjustmentTransaction(reference_number, product_id, quantity)

\* TransactionFactory.create_transaction
create_transaction(transaction_type, reference_number, product_id, quantity, unit_cost) ==
    IF transaction_type = "STOCK_IN"
    THEN StockInTransaction(reference_number, product_id, quantity, unit_cost)
    ELSE IF transaction_type = "STOCK_OUT"
    THEN StockOutTransaction(reference_number, product_id, quantity)
    ELSE IF transaction_type = "ADJUSTMENT"
    THEN StockAdjustmentTransaction(reference_number, product_id, quantity)
    ELSE [error |-> "UnsupportedType", transaction |-> None]

\* StockTransaction.unit_cost (property) : a missing or zero cost reads as 0.
unit_cost_of(t) ==
    IF t.unit_cost = None \/ t.unit_cost = Some(0) THEN 0 ELSE t.unit_cost[1]

\* StockTransaction.product (relationship) : the ORM resolves product_id to
\* the product row only for an object that is in the session (after
\* db.session.add / commit); on a freshly constructed object it reads None.
product_of(t, persistent) ==
    IF persistent /\ t.product_id \in DOMAIN products
    THEN Some(products[t.product_id])
    ELSE None

\* StockTransaction.validate : the common checks, accumulated in order.
StockTransaction_validate(t) ==
    (IF t.reference_number = <<>> \/ Len(strip(t.reference_number)) < 3
     THEN <<"ReferenceTooShort">> ELSE <<>>)
    \o (IF t.quantity = 0 THEN <<"QuantityZero">> ELSE <<>>)
    \o (IF unit_cost_of(t) < 0 THEN <<"UnitCostNegative">> ELSE <<>>)
    \o (IF t.product_id = 0 THEN <<"ProductRequired">> ELSE <<>>)

\* A variant of the stock-in validation without the unit-cost check.
StockInTransaction_validate_costless(t) ==
    StockTransaction_validate(t)
    \o (IF t.quantity <= 0 THEN <<"StockInNotPositive">> ELSE <<>>)

\* A variant of the stock-in validation that stops at its first own error.
StockInTransaction_validate_first_only(t) ==
    StockTransaction_validate(t)
    \o (IF t.quantity <= 0 THEN <<"StockInNotPositive">>
        ELSE IF unit_cost_of(t) = 0 \/ unit_cost_of(t) <= 0
        THEN <<"UnitCostRequired">> ELSE <<>>)

\* A variant of the stock-in validation without the sign check.
StockInTransaction_validate_unsigned(t) ==
    StockTransaction_validate(t)
    \o (IF unit_cost_of(t) = 0 \/ unit_cost_of(t) <= 0
        THEN <<"UnitCostRequired">> ELSE <<>>)

\* StockInTransaction.validate
StockInTransaction_validate(t) ==
    StockTransaction_validate(t)
    \o (IF t.quantity <= 0 THEN <<"StockInNotPositive">> ELSE <<>>)
    \o (IF unit_cost_of(t) = 0 \/ unit_cost_of(t) <= 0
        THEN <<"UnitCostRequired">> ELSE <<>>)

\* StockOutTransaction.validate : product is the relationship value (optional).
StockOutTransaction_validate(t, product) ==
    StockTransaction_validate(t)
    \o (IF t.quantity >= 0 THEN <<"StockOutNotNegative">> ELSE <<>>)
    \o (IF product # None /\ ~check_availability(product[1], abs(t.quantity))
        THEN <<"InsufficientStock">> ELSE <<>>)

\* A variant of the adjustment validation without the availability check.
StockAdjustmentTransaction_validate_blind(t, product) ==
    StockTransaction_validate(t)
    \o (IF t.quantity = 0 THEN <<"AdjustmentZero">> ELSE <<>>)

\* StockAdjustmentTransaction.validate
StockAdjustmentTransaction_validate(t, product) ==
    StockTransaction_validate(t)
    \o (IF t.quantity = 0 THEN <<"AdjustmentZero">> ELSE <<>>)
    \o (IF t.quantity < 0 /\ product # None
           /\ ~check_availability(product[1], abs(t.quantity))
        THEN <<"InsufficientStock">> ELSE <<>>)

\* validate() as dispatched on the variant.
validate(t, product) ==
    IF t.transaction_type = "STOCK_IN" THEN StockInTransaction_validate(t)
    ELSE IF t.transaction_type = "STOCK_OUT" THEN StockOutTransaction_validate(t, product)
    ELSE StockAdjustmentTransaction_validate(t, product)

\* A variant of the stock-in apply step that never touches the product.
StockInTransaction_apply_skipped(t, product) ==
    [error |-> "", product |-> product]

\* StockInTransaction._apply_transaction
StockInTransaction_apply(t, product) ==
    IF product # None
    THEN LET r == add_stock(product[1], t.quantity)
         IN  [error |-> r.error, product |-> Some(r.product)]
    ELSE [error |-> "", product |-> product]

\* A variant of the stock-out apply step that never touches the product.
StockOutTransaction_apply_skipped(t, product) ==
    [error |-> "", product |-> product]

\* StockOutTransaction._apply_transaction
StockOutTransaction_apply(t, product) ==
    IF product # None
    THEN LET r == reduce_stock(product[1], abs(t.quantity))
         IN  [error |-> r.error, product |-> Some(r.product)]
    ELSE [error |-> "", product |-> product]

\* StockAdjustmentTransaction._apply_transaction
StockAdjustmentTransaction_apply(t, product) ==
    IF product # None
    THEN LET r == IF t.quantity > 0
                  THEN add_stock(product[1], t.quantity)
                  ELSE reduce_stock(product[1], abs(t.quantity))
         IN  [error |-> r.error, product |-> Some(r.product)]
    ELSE [error |-> "", product |-> product]

\* _apply_transaction() as dispatched on the variant.
apply_transaction(t, product) ==
    IF t.transaction_type = "STOCK_IN" THEN StockInTransaction_apply(t, product)
    ELSE IF t.transaction_type = "STOCK_OUT" THEN StockOutTransaction_apply(t, product)
    ELSE StockAdjustmentTransaction_apply(t, product)

\* A variant of process_transaction that validates before it looks at the flag.
process_transaction_validate_first(t, product) ==
    IF validate(t, product) # <<>>
    THEN [error |-> "ValidationFailed", transaction |-> t, product |-> product]
    ELSE IF t.is_processed
    THEN [error |-> "AlreadyProcessed", transaction |-> t, product |-> product]
    ELSE LET applied == apply_transaction(t, product)
         IN  IF applied.error # ""
             THEN [error |-> applied.error, transaction |-> t,
                   product |-> applied.product]
             ELSE [error |-> "",
                   transaction |-> [t EXCEPT !.is_processed = TRUE],
                   product |-> applied.product]

\* A variant of process_transaction that forgets to mark the transaction.
process_transaction_unmarked(t, product) ==
    IF t.is_processed
    THEN [error |-> "AlreadyProcessed", transaction |-> t, product |-> product]
    ELSE IF validate(t, product) # <<>>
    THEN [error |-> "ValidationFailed", transaction |-> t, product |-> product]
    ELSE LET applied == apply_transaction(t, product)
         IN  [error |-> applied.error, transaction |-> t, product |-> applied.product]

\* A variant of process_transaction that does not re-run validate().
process_transaction_unvalidated(t, product) ==
    IF t.is_processed
    THEN [error |-> "AlreadyProcessed", transaction |-> t, product |-> product]
    ELSE LET applied == apply_transaction(t, product)
         IN  IF applied.error # ""
             THEN [error |-> applied.error, transaction |-> t,
                   product |-> applied.product]
             ELSE [error |-> "",
                   transaction |-> [t EXCEPT !.is_processed = TRUE],
                   product |-> applied.product]

\* StockTransaction.process_transaction : check-processed, validate, apply, mark.
\* Returns the error ("" on success) and the transaction and product objects
\* as the call leaves them.
process_transaction(t, product) ==
    IF t.is_processed
    THEN [error |-> "AlreadyProcessed", transaction |-> t, product |-> product]
    ELSE IF validate(t, product) # <<>>
    THEN [error |-> "ValidationFailed", transaction |-> t, product |-> product]
    ELSE LET applied == apply_transaction(t, product)
         IN  IF applied.error # ""
             THEN [error |-> applied.error, transaction |-> t,
                   product |-> applied.product]
             ELSE [error |-> "",
                   transaction |-> [t EXCEPT !.is_processed = TRUE],
                   product |-> applied.product]

----------------------------------------------------------------------------
(* Requests *)

\* The tags the factory builds a variant for.
SupportedTypes == {"STOCK_IN", "STOCK_OUT", "ADJUSTMENT"}

\* The transaction_type strings a request may carry; upper_tag is str.upper on them.
TypeInputs == {"STOCK_IN", "stock_out", "ADJUSTMENT", "TRANSFER", "BOGUS"}

upper_tag(s) == IF s = "stock_out" THEN "STOCK_OUT" ELSE s

\* Reference numbers a request may carry (<<>> : the field is missing).
RefInputs ==
    { <<"t", "x", "1">>, <<" ", "T", "X", "1">>, <<"t", "x", "2">>, <<"t", "x">>, <<>> }

\* Product ids a request may name: the existing ones, those of deleted
\* products and one that was never given out.
PidInputs == 1..(IF ProductIds = {} THEN 1 ELSE Max(ProductIds) + 1)

CostInputs == {None, Some(0), Some(1)}

\* Bodies of POST /stock-transactions.  A unit_cost is only read for STOCK_IN
\* (the other variants are constructed without it), so it is only varied there.
CreateRequests ==
    { d \in [transaction_type : TypeInputs,
             reference_number : RefInputs,
             product_id : PidInputs,
             quantity : QtyInputs,
             unit_cost : CostInputs,
             auto_process : BOOLEAN] :
        /\ d.transaction_type = "STOCK_IN" \/ d.unit_cost = None
        /\ \/ /\ d.reference_number \in {<<"t", "x", "1">>, <<"t", "x", "2">>}
              /\ d.product_id \in ProductIds
              /\ d.transaction_type # "BOGUS"
              /\ d.unit_cost # Some(0)
           \/ d.quantity = 1 /\ ~d.auto_process }

\* The bodies the create requests of the concurrent runs carry: well-formed,
\* for an existing product, one unit, without auto_process.
PlainRequests ==
    { d \in CreateRequests :
        /\ d.reference_number \in {<<"t", "x", "1">>, <<"t", "x", "2">>}
        /\ d.product_id \in ProductIds
        /\ upper_tag(d.transaction_type) \in SupportedTypes
        /\ abs(d.quantity) = 1
        /\ d.unit_cost # Some(0)
        /\ ~d.auto_process }

\* Bodies of PUT /stock-transactions/<id> : the keys present and their values.
UpdateRequests ==
    { [keys |-> {}, unit_cost |-> None, notes |-> None, processed_by |-> None] }
    \cup { [keys |-> {"unit_cost"}, unit_cost |-> c, notes |-> None,
             processed_by |-> None] : c \in {None, Some(0 - 1)} }

\* Bodies of PUT /stock-transactions/<id> that carry any of the three fields
\* the handler reads.
EditRequests ==
    { d \in [keys : SUBSET {"notes", "processed_by", "unit_cost"},
             unit_cost : {None, Some(0 - 1), Some(MaxQty)},
             notes : {None, Some(<<" ", "n">>)},
             processed_by : {None, Some(<<"u">>)}] :
        /\ "unit_cost" \in d.keys \/ d.unit_cost = None
        /\ "notes" \in d.keys \/ d.notes = None
        /\ "processed_by" \in d.keys \/ d.processed_by = None }

TxnIdInputs == 1..MaxTxns

\* Bodies of POST /products/<id>/stock with an operation among the given ones:
\* every quantity for a known product and a known operation, one quantity
\* for the requests that are turned down before the quantity is read.
StockRequests(operations) ==
    { d \in [product_id : PidInputs, operation : operations, quantity : QtyInputs] :
        \/ d.product_id \in ProductIds /\ d.operation \in {"add", "reduce", "set"}
        \/ d.quantity = 1 }

\* Stock limits a request may carry.
LimitInputs == (0 - 1)..MaxLimit

\* Bodies of PUT /products/<id> : the keys present and their values.
ProductRequests ==
    { d \in [keys : SUBSET {"minimum_stock", "maximum_stock"},
             minimum_stock : LimitInputs,
             maximum_stock : LimitInputs] :
        /\ "minimum_stock" \in d.keys \/ d.minimum_stock = 0
        /\ "maximum_stock" \in d.keys \/ d.maximum_stock = 0 }

----------------------------------------------------------------------------
(* Storage *)

\* Primary key given to the next stock_transactions row (SQLite rowid: one
\* more than the largest id in the table).
NextId == IF DOMAIN txns = {} THEN 1 ELSE Max(DOMAIN txns) + 1

\* StockTransaction.query.filter_by(_reference_number=ref).first() is not None
ReferenceExists(ref) == \E i \in DOMAIN txns : txns[i].reference_number = ref

Without(f, k) == [i \in DOMAIN f \ {k} |-> f[i]]

With(f, k, v) == [i \in DOMAIN f \cup {k} |-> IF i = k THEN v ELSE f[i]]

NoLast == [op |-> "init", result |-> "", error |-> ""]

\* The requests in flight, and the session of a request that holds no object.
Requests == 1..NumRequests

NoSession == [transaction_id |-> 0, transaction |-> None]

NoSessions == [r \in Requests |-> NoSession]

----------------------------------------------------------------------------
(* Request handlers (routes/stock_transaction.py, routes/product.py) *)

\* The outcome of a handler that changed nothing.
Rejected(result) ==
    [result |-> result, error |-> "", tid |-> 0, built |-> None,
     txns |-> txns, products |-> products]

\* A variant of the commit step that takes the new row back when its
\* processing fails.
create_commit_undo(data, t) ==
    IF ReferenceExists(t.reference_number)
    THEN [Rejected("IntegrityError") EXCEPT !.built = Some(t)]
    ELSE LET id == NextId
             stored == With(txns, id, t)
         IN  IF ~data.auto_process
             THEN [result |-> "Created", error |-> "", tid |-> id, built |-> Some(t),
                   txns |-> stored, products |-> products]
             ELSE LET r == process_transaction(t, product_of(t, TRUE))
                  IN  IF r.error # ""
                      THEN [result |-> "ProcessingFailed", error |-> r.error,
                            tid |-> 0, built |-> Some(t),
                            txns |-> txns, products |-> products]
                      ELSE [result |-> "Created", error |-> "", tid |-> id,
                            built |-> Some(t),
                            txns |-> With(txns, id, r.transaction),
                            products |-> IF r.product = None THEN products
                                         ELSE [products EXCEPT ![t.product_id] = r.product[1]]]

\* A variant of the commit step that processes the new row whether or not
\* the request asks for it.
create_commit_eager(data, t) ==
    IF ReferenceExists(t.reference_number)
    THEN [Rejected("IntegrityError") EXCEPT !.built = Some(t)]
    ELSE LET id == NextId
             stored == With(txns, id, t)
             r == process_transaction(t, product_of(t, TRUE))
         IN  IF r.error # ""
             THEN [result |-> "ProcessingFailed", error |-> r.error,
                   tid |-> id, built |-> Some(t),
                   txns |-> stored, products |-> products]
             ELSE [result |-> "Created", error |-> "", tid |-> id,
                   built |-> Some(t),
                   txns |-> With(txns, id, r.transaction),
                   products |-> IF r.product = None THEN products
                                ELSE [products EXCEPT ![t.product_id] = r.product[1]]]

\* A variant of the commit step that never processes the new row.
create_commit_deferred(data, t) ==
    IF ReferenceExists(t.reference_number)
    THEN [Rejected("IntegrityError") EXCEPT !.built = Some(t)]
    ELSE [result |-> "Created", error |-> "", tid |-> NextId, built |-> Some(t),
          txns |-> With(txns, NextId, t), products |-> products]

\* create_stock_transaction, from the uniqueness-safe commit on: the row is
\* stored; with auto_process it is then processed in a second unit of work.
create_commit(data, t) ==
    IF ReferenceExists(t.reference_number)
    THEN [Rejected("IntegrityError") EXCEPT !.built = Some(t)]
    ELSE LET id == NextId
             stored == With(txns, id, t)
         IN  IF ~data.auto_process
             THEN [result |-> "Created", error |-> "", tid |-> id, built |-> Some(t),
                   txns |-> stored, products |-> products]
             ELSE LET r == process_transaction(t, product_of(t, TRUE))
                  IN  IF r.error # ""
                      THEN [result |-> "ProcessingFailed", error |-> r.error,
                            tid |-> id, built |-> Some(t),
                            txns |-> stored, products |-> products]
                      ELSE [result |-> "Created", error |-> "", tid |-> id,
                            built |-> Some(t),
                            txns |-> With(txns, id, r.transaction),
                            products |-> IF r.product = None THEN products
                                         ELSE [products EXCEPT ![t.product_id] = r.product[1]]]

\* create_stock_transaction : POST /stock-transactions
create_stock_transaction(data) ==
    LET transaction_type_str == upper_tag(data.transaction_type)
    IN  IF data.reference_number = <<>>
        THEN Rejected("MissingFields")
        ELSE IF transaction_type_str \notin TransactionType
        THEN Rejected("InvalidType")
        ELSE IF ReferenceExists(upper(data.reference_number))
        THEN Rejected("Conflict")
        ELSE IF data.product_id \notin DOMAIN products
        THEN Rejected("NotFound")
        ELSE IF transaction_type_str = "STOCK_IN"
                /\ (data.unit_cost = None \/ data.unit_cost[1] <= 0)
        THEN Rejected("UnitCostRequired")
        ELSE LET built == create_transaction(transaction_type_str,
                                             data.reference_number, data.product_id,
                                             data.quantity, data.unit_cost)
             IN  IF built.error # ""
                 THEN Rejected(built.error)
                 ELSE LET t == built.transaction[1]
                      IN  IF validate(t, product_of(t, FALSE)) # <<>>
                          THEN [Rejected("ValidationFailed") EXCEPT !.built = Some(t)]
                          ELSE create_commit(data, t)

CreateStockTransactionFrom(requests) ==
    \E data \in requests :
        /\ NextId <= MaxTxns
        /\ LET out == create_stock_transaction(data)
           IN  /\ txns' = out.txns
               /\ products' = out.products
               /\ last' = [op |-> "create", result |-> out.result, error |-> out.error]
               /\ UNCHANGED sessions

CreateStockTransaction == CreateStockTransactionFrom(CreateRequests)

\* A variant of process_stock_transaction that marks every stored
\* transaction processed.
process_stock_transaction_all(transaction_id) ==
    IF transaction_id \notin DOMAIN txns
    THEN Rejected("NotFound")
    ELSE LET t == txns[transaction_id]
         IN  IF t.is_processed
             THEN [Rejected("AlreadyProcessed") EXCEPT !.tid = transaction_id]
             ELSE LET r == process_transaction(t, product_of(t, TRUE))
                  IN  IF r.error # ""
                      THEN [Rejected(r.error) EXCEPT !.tid = transaction_id]
                      ELSE [result |-> "OK", error |-> "", tid |-> transaction_id,
                            built |-> None,
                            txns |-> [i \in DOMAIN txns |->
                                         [txns[i] EXCEPT !.is_processed = TRUE]],
                            products |-> IF r.product = None THEN products
                                         ELSE [products EXCEPT ![t.product_id] = r.product[1]]]

\* process_stock_transaction : POST /stock-transactions/<id>/process
\* (an unknown id ends in the handler's generic error response; a ValueError
\* from process_transaction is answered without a commit)
process_stock_transaction(transaction_id) ==
    IF transaction_id \notin DOMAIN txns
    THEN Rejected("NotFound")
    ELSE LET t == txns[transaction_id]
         IN  IF t.is_processed
             THEN [Rejected("AlreadyProcessed") EXCEPT !.tid = transaction_id]
             ELSE LET r == process_transaction(t, product_of(t, TRUE))
                  IN  IF r.error # ""
                      THEN [Rejected(r.error) EXCEPT !.tid = transaction_id]
                      ELSE [result |-> "OK", error |-> "", tid |-> transaction_id,
                            built |-> None,
                            txns |-> [txns EXCEPT ![transaction_id] = r.transaction],
                            products |-> IF r.product = None THEN products
                                         ELSE [products EXCEPT ![t.product_id] = r.product[1]]]

ProcessStockTransaction ==
    \E transaction_id \in TxnIdInputs :
        LET out == process_stock_transaction(transaction_id)
        IN  /\ txns' = out.txns
            /\ products' = out.products
            /\ last' = [op |-> "process", result |-> out.result, error |-> ""]
            /\ UNCHANGED sessions

\* A variant of update_stock_transaction that marks the row it saves processed.
update_stock_transaction_marking(transaction_id, data) ==
    IF transaction_id \notin DOMAIN txns
    THEN Rejected("NotFound")
    ELSE LET t == txns[transaction_id]
         IN  IF t.is_processed
             THEN Rejected("Conflict")
             ELSE IF data.keys = {}
             THEN Rejected("NoData")
             ELSE IF "unit_cost" \in data.keys /\ data.unit_cost # None
                     /\ data.unit_cost[1] < 0
             THEN Rejected("InvalidArgument")
             ELSE LET u == [t EXCEPT
                               !.notes = IF "notes" \in data.keys
                                         THEN set_notes(data.notes) ELSE @,
                               !.processed_by = IF "processed_by" \in data.keys
                                                THEN set_processed_by(data.processed_by)
                                                ELSE @,
                               !.unit_cost = IF "unit_cost" \in data.keys
                                             THEN data.unit_cost ELSE @,
                               !.is_processed = TRUE]
                  IN  IF validate(u, product_of(u, TRUE)) # <<>>
                      THEN Rejected("ValidationFailed")
                      ELSE [Rejected("OK") EXCEPT
                               !.txns = [txns EXCEPT ![transaction_id] = u]]

\* A variant of update_stock_transaction without the processed check.
update_stock_transaction_any(transaction_id, data) ==
    IF transaction_id \notin DOMAIN txns
    THEN Rejected("NotFound")
    ELSE LET t == txns[transaction_id]
         IN  IF data.keys = {}
             THEN Rejected("NoData")
             ELSE IF "unit_cost" \in data.keys /\ data.unit_cost # None
                     /\ data.unit_cost[1] < 0
             THEN Rejected("InvalidArgument")
             ELSE LET noted == IF "notes" \in data.keys
                               THEN [t EXCEPT !.notes = set_notes(data.notes)]
                               ELSE t
                      signed == IF "processed_by" \in data.keys
                                THEN [noted EXCEPT
                                         !.processed_by = set_processed_by(data.processed_by)]
                                ELSE noted
                      u == IF "unit_cost" \in data.keys
                           THEN [signed EXCEPT !.unit_cost = data.unit_cost]
                           ELSE signed
                  IN  IF validate(u, product_of(u, TRUE)) # <<>>
                      THEN Rejected("ValidationFailed")
                      ELSE [Rejected("OK") EXCEPT
                               !.txns = [txns EXCEPT ![transaction_id] = u]]

\* process_stock_transaction when requests are handled by concurrent threads,
\* each with a database session of its own and no lock between them.  The
\* handler reads twice: it loads the transaction row and tests is_processed
\* (LoadStockTransaction), and only then does the first access to
\* transaction.product load the product row; what it has computed from the
\* two reads it writes back on commit (ApplyStockTransaction).  Other
\* requests may run between the two reads.
LoadStockTransaction(request) ==
    /\ sessions[request] = NoSession
    /\ \E transaction_id \in TxnIdInputs :
          IF transaction_id \notin DOMAIN txns
          THEN /\ last' = [op |-> "process", result |-> "NotFound", error |-> ""]
               /\ UNCHANGED sessions
          ELSE IF txns[transaction_id].is_processed
          THEN /\ last' = [op |-> "process", result |-> "AlreadyProcessed",
                            error |-> ""]
               /\ UNCHANGED sessions
          ELSE /\ sessions' = [sessions EXCEPT
                                   ![request] = [transaction_id |-> transaction_id,
                                                 transaction |-> Some(txns[transaction_id])]]
               /\ UNCHANGED last
    /\ UNCHANGED <<products, txns>>

\* The rest of the handler: process_transaction on the object loaded earlier
\* and the product row as it is now; on success the flush writes the new
\* stock_quantity and is_processed to their rows.  A row deleted in the
\* meantime makes the flush fail and the unit of work is rolled back.
ApplyStockTransaction(request) ==
    /\ sessions[request] # NoSession
    /\ LET transaction_id == sessions[request].transaction_id
           t == sessions[request].transaction[1]
           r == process_transaction(t, product_of(t, TRUE))
       IN  IF r.error # ""
           THEN /\ last' = [op |-> "process", result |-> r.error, error |-> ""]
                /\ UNCHANGED <<products, txns>>
           ELSE IF transaction_id \notin DOMAIN txns
           THEN /\ last' = [op |-> "process", result |-> "StaleData", error |-> ""]
                /\ UNCHANGED <<products, txns>>
           ELSE /\ txns' = [txns EXCEPT ![transaction_id].is_processed = TRUE]
                /\ products' = IF r.product = None THEN products
                                ELSE [products EXCEPT
                                         ![t.product_id].stock_quantity =
                                             r.product[1].stock_quantity]
                /\ last' = [op |-> "process", result |-> "OK", error |-> ""]
    /\ sessions' = [sessions EXCEPT ![request] = NoSession]

\* update_stock_transaction : PUT /stock-transactions/<id>
update_stock_transaction(transaction_id, data) ==
    IF transaction_id \notin DOMAIN txns
    THEN Rejected("NotFound")
    ELSE LET t == txns[transaction_id]
         IN  IF t.is_processed
             THEN Rejected("Conflict")
             ELSE IF data.keys = {}
             THEN Rejected("NoData")
             ELSE IF "unit_cost" \in data.keys /\ data.unit_cost # None
                     /\ data.unit_cost[1] < 0
             THEN Rejected("InvalidArgument")
             ELSE LET noted == IF "notes" \in data.keys
                               THEN [t EXCEPT !.notes = set_notes(data.notes)]
                               ELSE t
                      signed == IF "processed_by" \in data.keys
                                THEN [noted EXCEPT
                                         !.processed_by = set_processed_by(data.processed_by)]
                                ELSE noted
                      u == IF "unit_cost" \in data.keys
                           THEN [signed EXCEPT !.unit_cost = data.unit_cost]
                           ELSE signed
                  IN  IF validate(u, product_of(u, TRUE)) # <<>>
                      THEN Rejected("ValidationFailed")
                      ELSE [Rejected("OK") EXCEPT
                               !.txns = [txns EXCEPT ![transaction_id] = u]]

UpdateStockTransactionFrom(requests) ==
    \E transaction_id \in TxnIdInputs, data \in requests :
        LET out == update_stock_transaction(transaction_id, data)
        IN  /\ txns' = out.txns
            /\ products' = out.products
            /\ last' = [op |-> "update", result |-> out.result, error |-> ""]
            /\ UNCHANGED sessions

UpdateStockTransaction == UpdateStockTransactionFrom(UpdateRequests)

\* A variant of delete_stock_transaction without the processed check.
delete_stock_transaction_any(transaction_id) ==
    IF transaction_id \notin DOMAIN txns
    THEN Rejected("NotFound")
    ELSE [Rejected("OK") EXCEPT !.txns = Without(txns, transaction_id)]

\* delete_stock_transaction : DELETE /stock-transactions/<id>
delete_stock_transaction(transaction_id) ==
    IF transaction_id \notin DOMAIN txns
    THEN Rejected("NotFound")
    ELSE IF txns[transaction_id].is_processed
    THEN Rejected("Conflict")
    ELSE [Rejected("OK") EXCEPT !.txns = Without(txns, transaction_id)]

DeleteStockTransaction ==
    \E transaction_id \in TxnIdInputs :
        LET out == delete_stock_transaction(transaction_id)
        IN  /\ txns' = out.txns
            /\ products' = out.products
            /\ last' = [op |-> "delete", result |-> out.result, error |-> ""]
            /\ UNCHANGED sessions

\* update_product_stock : POST /products/<id>/stock
update_product_stock(product_id, operation, quantity) ==
    IF product_id \notin DOMAIN products
    THEN Rejected("NotFound")
    ELSE IF operation \notin {"add", "reduce", "set"}
    THEN Rejected("InvalidOperation")
    ELSE LET product == products[product_id]
             r == IF operation = "add" THEN add_stock(product, quantity)
                  ELSE IF operation = "reduce" THEN reduce_stock(product, quantity)
                  ELSE IF quantity < 0
                       THEN [error |-> "InvalidArgument", product |-> product]
                       ELSE [error |-> "",
                             product |-> [product EXCEPT !.stock_quantity = quantity]]
         IN  IF r.error # ""
             THEN Rejected(r.error)
             ELSE [result |-> "OK", error |-> "", tid |-> 0, built |-> None,
                   txns |-> txns,
                   products |-> [products EXCEPT ![product_id] = r.product],
                   new_quantity |-> r.product.stock_quantity,
                   stock_status |-> get_stock_status(r.product)]

UpdateProductStock(operations) ==
    \E d \in StockRequests(operations) :
        LET product_id == d.product_id
            operation == d.operation
            quantity == d.quantity
            out == update_product_stock(product_id, operation, quantity)
        IN  /\ txns' = out.txns
            /\ products' = out.products
            /\ last' = [op |-> "stock", result |-> out.result, error |-> ""]
            /\ UNCHANGED sessions

\* A variant of delete_product without the check for stock transactions.
delete_product_any(product_id) ==
    IF product_id \notin DOMAIN products
    THEN Rejected("NotFound")
    ELSE [Rejected("OK") EXCEPT !.products = Without(products, product_id)]

\* delete_product : DELETE /products/<id>
delete_product(product_id) ==
    IF product_id \notin DOMAIN products
    THEN Rejected("NotFound")
    ELSE IF \E id \in DOMAIN txns : txns[id].product_id = product_id
    THEN Rejected("Conflict")
    ELSE [Rejected("OK") EXCEPT !.products = Without(products, product_id)]

DeleteProduct ==
    \E product_id \in PidInputs :
        LET out == delete_product(product_id)
        IN  /\ txns' = out.txns
            /\ products' = out.products
            /\ last' = [op |-> "remove", result |-> out.result, error |-> ""]
            /\ UNCHANGED sessions

\* update_product : PUT /products/<id>, for the stock limits.  A limit that
\* the body does not carry keeps the product's value.
update_product(product_id, data) ==
    IF product_id \notin DOMAIN products
    THEN Rejected("NotFound")
    ELSE IF data.keys = {}
    THEN Rejected("NoData")
    ELSE LET product == products[product_id]
             min_stock == IF "minimum_stock" \in data.keys
                          THEN data.minimum_stock ELSE product.minimum_stock
             max_stock == IF "maximum_stock" \in data.keys
                          THEN data.maximum_stock ELSE product.maximum_stock
             r == set_stock_limits(product, min_stock, max_stock)
         IN  IF r.error # ""
             THEN Rejected(r.error)
             ELSE IF Product_validate(r.product) # <<>>
             THEN Rejected("ValidationFailed")
             ELSE [Rejected("OK") EXCEPT
                      !.products = [products EXCEPT ![product_id] = r.product]]

UpdateProduct ==
    \E product_id \in PidInputs, data \in ProductRequests :
        LET out == update_product(product_id, data)
        IN  /\ txns' = out.txns
            /\ products' = out.products
            /\ last' = [op |-> "product", result |-> out.result, error |-> ""]
            /\ UNCHANGED sessions

\* A transaction object is constructed through the factory and held by the
\* session of request 1, before anything is stored.  Product id 0 stands for
\* a missing product id.
ConstructTransaction ==
    \E transaction_type \in SupportedTypes, reference_number \in RefInputs,
       product_id \in PidInputs \cup {0}, quantity \in QtyInputs,
       unit_cost \in CostInputs :
        LET built == create_transaction(transaction_type, reference_number,
                                        product_id, quantity, unit_cost)
        IN  /\ sessions' = [sessions EXCEPT
                                ![1] = [transaction_id |-> 0,
                                        transaction |-> built.transaction]]
            /\ last' = [op |-> "construct", result |-> built.error, error |-> ""]
            /\ UNCHANGED <<products, txns>>

\* validate() is called on the held object, either as constructed (its
\* product relationship not loaded) or bound to its product row.
ValidateTransaction ==
    /\ sessions[1].transaction # None
    /\ \E bound \in BOOLEAN :
          LET t == sessions[1].transaction[1]
          IN  last' = [op |-> "validate",
                       result |-> validate(t, product_of(t, bound)),
                       error |-> ""]
    /\ UNCHANGED <<products, txns, sessions>>

----------------------------------------------------------------------------
(* Specifications *)

\* The store after set-up: the products exist, created with the default
\* minimum_stock and some maximum_stock, and no transaction has been made.
Stores(n) ==
    /\ products \in [1..n -> {Product(0, m) : m \in 0..MaxLimit}]
    /\ txns = <<>>
    /\ last = NoLast
    /\ sessions = NoSessions

Init == Stores(NumProducts)

\* Every request of the API, one at a time.
Next ==
    \/ CreateStockTransaction
    \/ ProcessStockTransaction
    \/ UpdateStockTransaction
    \/ DeleteStockTransaction
    \/ UpdateProductStock({"add", "reduce", "set", "bogus"})

Spec == Init /\ [][Next]_vars

\* The stock ledger alone: only add / reduce requests reach the products.
NextLedger == UpdateProductStock({"add", "reduce"})

InitLedger == Stores(LedgerProducts)

SpecLedger == InitLedger /\ [][NextLedger]_vars

\* The product catalogue alone: products created with any valid pair of
\* limits, then stock requests and changes of the limits.
InitCatalog ==
    /\ products \in [1..LedgerProducts ->
                        {Product(l[1], l[2]) :
                            l \in {m \in (0..MaxLimit) \X (0..MaxLimit) : m[1] <= m[2]}}]
    /\ txns = <<>>
    /\ last = NoLast
    /\ sessions = NoSessions

NextCatalog ==
    \/ UpdateProductStock({"add", "reduce", "set", "bogus"})
    \/ UpdateProduct

SpecCatalog == InitCatalog /\ [][NextCatalog]_vars

\* The transaction variants alone: objects are constructed and validated
\* against a product whose stock add / reduce requests move.
NextVariants ==
    \/ ConstructTransaction
    \/ ValidateTransaction
    \/ UpdateProductStock({"add", "reduce"})

SpecVariants == Init /\ [][NextVariants]_vars

\* Concurrent process requests: transactions are created and the stock is
\* moved by add / reduce requests while process requests are in flight.
NextRace ==
    \/ CreateStockTransactionFrom(PlainRequests)
    \/ \E request \in Requests : LoadStockTransaction(request)
    \/ \E request \in Requests : ApplyStockTransaction(request)
    \/ UpdateProductStock({"add", "reduce"})

SpecRace == Init /\ [][NextRace]_vars

\* Several products: transactions are created, processed and deleted, and
\* products are deleted.
NextReferences ==
    \/ CreateStockTransactionFrom(PlainRequests)
    \/ ProcessStockTransaction
    \/ DeleteStockTransaction
    \/ DeleteProduct

SpecReferences == InitLedger /\ [][NextReferences]_vars

\* The transaction requests alone: no request writes the stock directly.
NextProcessing ==
    \/ CreateStockTransaction
    \/ ProcessStockTransaction
    \/ UpdateStockTransaction
    \/ DeleteStockTransaction

SpecProcessing == Init /\ [][NextProcessing]_vars

\* Editing: transactions are created, edited and processed.
NextEdit ==
    \/ CreateStockTransactionFrom(PlainRequests)
    \/ UpdateStockTransactionFrom(EditRequests)
    \/ ProcessStockTransaction

SpecEdit == Init /\ [][NextEdit]_vars

----------------------------------------------------------------------------
(* Properties *)

Stock(p) == products[p].stock_quantity

\* The transactions that a step marks processed: stored unprocessed (or not
\* stored) before it, stored processed after it.
BecameProcessed(id) ==
    /\ id \in DOMAIN txns'
    /\ txns'[id].is_processed
    /\ id \in DOMAIN txns => ~txns[id].is_processed

\* C1: starting from stock 0 with maximum_stock >= 0, after any sequence of
\* add_stock / reduce_stock requests, failed ones included, every product has
\* 0 <= stock_quantity <= maximum_stock.
C1_StockWithinLimits ==
    \A p \in DOMAIN products :
        /\ 0 <= products[p].stock_quantity
        /\ products[p].stock_quantity <= products[p].maximum_stock

\* C1 witness: a product filled to its maximum by two successive adds has
\* just refused a further add.
C1_Witness ==
    /\ last.op = "stock"
    /\ last.result = "CapacityExceeded"
    /\ \E p \in DOMAIN products :
          /\ products[p].maximum_stock = MaxLimit
          /\ products[p].stock_quantity = products[p].maximum_stock

\* C2: a successful process request changes the product's stock and marks the
\* transaction processed; from then on every process request on it (and every
\* process_transaction call) fails with AlreadyProcessed and changes nothing.
C2_ProcessOnce ==
    \A id \in DOMAIN txns :
        LET t == txns[id]
            out == process_stock_transaction(id)
            r == process_transaction(t, product_of(t, TRUE))
        IN  /\ out.result = "OK" =>
                  /\ ~t.is_processed
                  /\ out.txns[id].is_processed
                  /\ out.products[t.product_id].stock_quantity # Stock(t.product_id)
            /\ t.is_processed =>
                  /\ out.result = "AlreadyProcessed"
                  /\ out.products = products
                  /\ out.txns = txns
                  /\ r.error = "AlreadyProcessed"
                  /\ r.transaction = t
                  /\ r.product = product_of(t, TRUE)

\* C2 witness: a processed transaction was asked to be processed again.
C2_Witness ==
    /\ last.op = "process"
    /\ last.result = "AlreadyProcessed"
    /\ \E id \in DOMAIN txns : txns[id].is_processed

\* C3: a transaction is unprocessed as constructed (the constructor, run on
\* the data of any row a request stores, yields an unprocessed transaction),
\* and a processed transaction stays stored and processed through every request.
C3_ProcessedIsPermanent ==
    [][ /\ \A id \in DOMAIN txns :
              txns[id].is_processed =>
                  id \in DOMAIN txns' /\ txns'[id].is_processed
        /\ \A id \in DOMAIN txns' \ DOMAIN txns :
              LET t == txns'[id]
                  built == create_transaction(t.transaction_type, t.reference_number,
                                              t.product_id, t.quantity, t.unit_cost)
              IN  /\ built.error = ""
                  /\ ~built.transaction[1].is_processed ]_vars

\* C3 witness: with a processed transaction in the store, a request to delete
\* a processed transaction has been turned down.
C3_Witness ==
    /\ last.op = "delete"
    /\ last.result = "Conflict"
    /\ \E id \in DOMAIN txns : txns[id].is_processed

\* C4: whenever a transaction becomes processed, its product's stock after
\* the step is the stock before it plus the stored signed quantity, and that
\* quantity has the sign of its variant.
C4_ProcessAppliesQuantity ==
    [][ \A id \in DOMAIN txns' :
            BecameProcessed(id) =>
                LET t == txns'[id]
                IN  /\ products'[t.product_id].stock_quantity
                          = Stock(t.product_id) + t.quantity
                    /\ t.transaction_type = "STOCK_IN" => t.quantity > 0
                    /\ t.transaction_type = "STOCK_OUT" => t.quantity < 0
                    /\ t.quantity # 0 ]_vars

\* C4 witness: a process request succeeded on a decreasing adjustment.
C4_Witness ==
    /\ last.op = "process"
    /\ last.result = "OK"
    /\ \E id \in DOMAIN txns :
          /\ txns[id].is_processed
          /\ txns[id].transaction_type = "ADJUSTMENT"
          /\ txns[id].quantity < 0

\* C5: a process_transaction call that fails leaves the product's stock and
\* the transaction's flag as they were, a failed process request stores
\* nothing, and a failed auto-process only stores the unprocessed row.
C5_FailedProcessChangesNothing ==
    /\ \A id \in DOMAIN txns :
          LET t == txns[id]
              r == process_transaction(t, product_of(t, TRUE))
              out == process_stock_transaction(id)
          IN  /\ r.error # "" =>
                    r.transaction = t /\ r.product = product_of(t, TRUE)
              /\ out.result # "OK" =>
                    out.products = products /\ out.txns = txns
    /\ \A d \in CreateRequests :
          LET out == create_stock_transaction(d)
          IN  out.result = "ProcessingFailed" =>
                  /\ out.products = products
                  /\ ~out.txns[out.tid].is_processed
                  /\ \A id \in DOMAIN txns : out.txns[id] = txns[id]

\* C5 witness: processing failed in the apply step, with an unprocessed
\* transaction still in the store.
C5_Witness ==
    /\ last.op = "process"
    /\ last.result = "CapacityExceeded"
    /\ \E id \in DOMAIN txns : ~txns[id].is_processed

\* e is one of the errors of a validate() result.
Reports(errors, e) == \E i \in 1..Len(errors) : errors[i] = e

\* C6: an unprocessed stock-decreasing transaction whose product now holds
\* less than it requires (the stock having been used up since it was
\* created) fails processing with ValidationFailed; the stock is unchanged
\* and it stays unprocessed.
C6_RevalidatedOnProcess ==
    \A id \in DOMAIN txns :
        LET t == txns[id]
            out == process_stock_transaction(id)
        IN  (~t.is_processed /\ t.quantity < 0
                /\ Stock(t.product_id) < abs(t.quantity)) =>
                /\ out.result = "ValidationFailed"
                /\ out.products = products
                /\ out.txns = txns

\* C6 witness: of two stock-decreasing transactions on one product the first
\* is processed, the stock left is less than the second requires although
\* it was enough before, and the second has just failed validation.
C6_Witness ==
    /\ last.op = "process"
    /\ last.result = "ValidationFailed"
    /\ \E a, b \in DOMAIN txns :
          /\ a # b
          /\ txns[a].product_id = txns[b].product_id
          /\ txns[a].quantity < 0 /\ txns[b].quantity < 0
          /\ txns[a].is_processed /\ ~txns[b].is_processed
          /\ Stock(txns[b].product_id) < abs(txns[b].quantity)
          /\ Stock(txns[b].product_id) + abs(txns[a].quantity) >= abs(txns[b].quantity)

\* C7: a stock-in with positive quantity and unit cost that would take the
\* product over maximum_stock passes validate(), at creation and when stored,
\* but processing it fails with CapacityExceeded from the apply step; the
\* stock keeps its value and the transaction stays unprocessed.
C7_StockInOverCapacity ==
    /\ \A id \in DOMAIN txns :
          LET t == txns[id]
              out == process_stock_transaction(id)
          IN  (t.transaction_type = "STOCK_IN" /\ ~t.is_processed
                  /\ t.quantity > 0 /\ unit_cost_of(t) > 0
                  /\ Stock(t.product_id) + t.quantity
                        > products[t.product_id].maximum_stock) =>
                  /\ validate(t, product_of(t, TRUE)) = <<>>
                  /\ out.result = "CapacityExceeded"
                  /\ out.products = products
                  /\ out.txns = txns
    /\ \A d \in CreateRequests :
          LET out == create_stock_transaction(d)
          IN  (upper_tag(d.transaction_type) = "STOCK_IN" /\ out.built # None
                  /\ d.quantity > 0
                  /\ Stock(d.product_id) + d.quantity
                        > products[d.product_id].maximum_stock) =>
                  /\ validate(out.built[1], product_of(out.built[1], FALSE)) = <<>>
                  /\ out.result \in {"Created", "ProcessingFailed", "IntegrityError"}
                  /\ out.result = "Created" => ~d.auto_process
                  /\ out.result = "ProcessingFailed" => out.error = "CapacityExceeded"
                  /\ out.products = products
                  /\ out.tid # 0 => ~out.txns[out.tid].is_processed

\* C7 witness: a stored stock-in that does not fit has just been refused by
\* the apply step, on a product that is full.
C7_Witness ==
    /\ last.op = "process"
    /\ last.result = "CapacityExceeded"
    /\ \E id \in DOMAIN txns :
          LET t == txns[id]
          IN  /\ t.transaction_type = "STOCK_IN"
              /\ ~t.is_processed
              /\ Stock(t.product_id) = products[t.product_id].maximum_stock
              /\ Stock(t.product_id) > 0

\* C8: a stock-out built from input quantity q stores -abs(q), and its
\* validation fails with an insufficient-stock error whenever the product
\* holds less than abs(q), also in the validation that creation runs.
C8_StockOutChecksStock ==
    /\ \A id \in DOMAIN txns :
          LET t == txns[id]
          IN  (t.transaction_type = "STOCK_OUT"
                  /\ Stock(t.product_id) < abs(t.quantity)) =>
                  Reports(validate(t, product_of(t, TRUE)), "InsufficientStock")
    /\ \A d \in CreateRequests :
          LET out == create_stock_transaction(d)
          IN  (upper_tag(d.transaction_type) = "STOCK_OUT" /\ out.built # None) =>
                  /\ out.built[1].quantity = 0 - abs(d.quantity)
                  /\ Stock(d.product_id) < abs(d.quantity) =>
                        out.result = "ValidationFailed"

C10_StockInStoresMagnitude ==
    \A d \in CreateRequests :
        LET out == create_stock_transaction(d)
        IN  (upper_tag(d.transaction_type) = "STOCK_IN" /\ out.built # None) =>
                /\ out.built[1].quantity = abs(d.quantity)
                /\ out.built[1].quantity > 0

\* C10 as amended: a stock-in keeps the quantity as supplied; one built with
\* a negative quantity fails validation and is not stored, so every stored
\* stock-in has a positive quantity.
C10_StoredStockInPositive ==
    /\ \A id \in DOMAIN txns :
          txns[id].transaction_type = "STOCK_IN" => txns[id].quantity > 0
    /\ \A d \in CreateRequests :
          LET out == create_stock_transaction(d)
          IN  (upper_tag(d.transaction_type) = "STOCK_IN" /\ out.built # None) =>
                  /\ out.built[1].quantity = d.quantity
                  /\ d.quantity < 0 =>
                        /\ out.result = "ValidationFailed"
                        /\ out.txns = txns

\* C10 witness: a stock-in is stored, and a create request has just been
\* turned down by validation (which at creation only a stock-in with a
\* negative quantity is).
C10_Witness ==
    /\ last.op = "create"
    /\ last.result = "ValidationFailed"
    /\ \E id \in DOMAIN txns : txns[id].transaction_type = "STOCK_IN"

\* C11 as stated: a create request with any other tag fails with
\* UnsupportedType and stores nothing, whatever its reference number and
\* product are.
C11_TransferAlwaysUnsupported ==
    \A d \in CreateRequests :
        LET out == create_stock_transaction(d)
        IN  (d.transaction_type = "TRANSFER" /\ d.reference_number # <<>>) =>
                /\ out.result = "UnsupportedType"
                /\ out.txns = txns

\* C11 as amended: the factory fails with UnsupportedType for every tag
\* other than the three variants, whatever the other parameters; a create
\* request with a declared but unimplemented tag never stores anything, and
\* it fails with UnsupportedType exactly when it passes the checks made
\* before construction (reference number not stored yet, product known),
\* with Conflict or NotFound otherwise.
C11_UnsupportedTypeStoresNothing ==
    /\ \A tag \in (TransactionType \cup {"BOGUS"}) \ SupportedTypes,
          ref \in RefInputs, pid \in PidInputs, q \in QtyInputs, c \in CostInputs :
          LET built == create_transaction(tag, ref, pid, q, c)
          IN  built.error = "UnsupportedType" /\ built.transaction = None
    /\ \A d \in CreateRequests :
          LET out == create_stock_transaction(d)
          IN  (d.transaction_type = "TRANSFER" /\ d.reference_number # <<>>) =>
                  /\ out.txns = txns
                  /\ out.products = products
                  /\ out.result =
                        IF ReferenceExists(upper(d.reference_number)) THEN "Conflict"
                        ELSE IF d.product_id \notin DOMAIN products THEN "NotFound"
                        ELSE "UnsupportedType"

\* C11 witness: with a transaction in the store, a create request has just
\* been refused for its unsupported type.
C11_Witness ==
    /\ last.op = "create"
    /\ last.result = "UnsupportedType"
    /\ txns # <<>>

\* C12: a create request whose reference number, trimmed and uppercased,
\* equals a stored reference number is answered Conflict whatever its type
\* is, and no two stored transactions share a reference number.
C12_DuplicateReferenceConflict ==
    /\ \A a, b \in DOMAIN txns :
          a # b => txns[a].reference_number # txns[b].reference_number
    /\ \A d \in CreateRequests :
          LET out == create_stock_transaction(d)
          IN  (d.reference_number # <<>>
                  /\ upper_tag(d.transaction_type) \in TransactionType
                  /\ ReferenceExists(set_reference_number(d.reference_number))) =>
                  /\ out.result = "Conflict"
                  /\ out.txns = txns

\* C13: in every product state, add_stock(q) and reduce_stock(q) with
\* q <= 0 fail with InvalidArgument and leave the product as it was; so do
\* the add / reduce requests that carry such a quantity.
C13_NonPositiveQuantityRejected ==
    \A p \in DOMAIN products, q \in QtyInputs :
        q <= 0 =>
            /\ add_stock(products[p], q)
                  = [error |-> "InvalidArgument", product |-> products[p]]
            /\ reduce_stock(products[p], q)
                  = [error |-> "InvalidArgument", product |-> products[p]]
            /\ \A operation \in {"add", "reduce"} :
                  LET out == update_product_stock(p, operation, q)
                  IN  out.result = "InvalidArgument" /\ out.products = products

\* C13 witness: a product that holds stock has just refused a request
\* with a non-positive quantity.
C13_Witness ==
    /\ last.op = "stock"
    /\ last.result = "InvalidArgument"
    /\ \A p \in DOMAIN products : products[p].stock_quantity > 0

\* C14: add_stock(q) with q > 0 fails with CapacityExceeded and leaves the
\* product as it was if stock_quantity + q > maximum_stock; otherwise the
\* stock becomes stock_quantity + q, which is the value returned, also when
\* it equals maximum_stock.
C14_AddStockContract ==
    \A p \in DOMAIN products, q \in 1..MaxQty :
        LET product == products[p]
            r == add_stock(product, q)
            out == update_product_stock(p, "add", q)
        IN  IF product.stock_quantity + q > product.maximum_stock
            THEN /\ r = [error |-> "CapacityExceeded", product |-> product]
                 /\ out.result = "CapacityExceeded"
                 /\ out.products = products
            ELSE /\ r.error = ""
                 /\ r.product.stock_quantity = product.stock_quantity + q
                 /\ r.product.maximum_stock = product.maximum_stock
                 /\ r.product.minimum_stock = product.minimum_stock
                 /\ out.result = "OK"
                 /\ out.new_quantity = product.stock_quantity + q
                 /\ out.products[p].stock_quantity = product.stock_quantity + q

\* C14 witness: every product has just been filled exactly to a positive
\* maximum.
C14_Witness ==
    /\ last.op = "stock"
    /\ last.result = "OK"
    /\ \A p \in DOMAIN products :
          /\ products[p].maximum_stock = MaxLimit
          /\ products[p].stock_quantity = products[p].maximum_stock

\* C15: reduce_stock(q) with q > 0 fails with InsufficientStock and leaves
\* the product as it was if q > stock_quantity; otherwise the stock becomes
\* stock_quantity - q, which is the value returned, also when it is 0.
C15_ReduceStockContract ==
    \A p \in DOMAIN products, q \in 1..MaxQty :
        LET product == products[p]
            r == reduce_stock(product, q)
            out == update_product_stock(p, "reduce", q)
        IN  IF q > product.stock_quantity
            THEN /\ r = [error |-> "InsufficientStock", product |-> product]
                 /\ out.result = "InsufficientStock"
                 /\ out.products = products
            ELSE /\ r.error = ""
                 /\ r.product.stock_quantity = product.stock_quantity - q
                 /\ r.product.maximum_stock = product.maximum_stock
                 /\ r.product.minimum_stock = product.minimum_stock
                 /\ out.result = "OK"
                 /\ out.new_quantity = product.stock_quantity - q
                 /\ out.products[p].stock_quantity = product.stock_quantity - q

\* C15 witness: a reduce request has just taken the last of the stock (no
\* product holds any, and the last request succeeded, which an add request
\* leaving no stock cannot).
C15_Witness ==
    /\ last.op = "stock"
    /\ last.result = "OK"
    /\ \A p \in DOMAIN products : products[p].stock_quantity = 0

\* C16: the stock status of a product is OUT_OF_STOCK exactly when it holds
\* nothing (whatever its limits are); otherwise LOW_STOCK exactly when the
\* stock is at most minimum_stock (also when it has reached maximum_stock);
\* otherwise OVERSTOCK exactly when it is at least maximum_stock; otherwise
\* NORMAL.  The stock endpoint reports the status of the stock it has written.
C16_StockStatusPriority ==
    /\ \A p \in DOMAIN products :
          LET product == products[p]
              qty == product.stock_quantity
              status == get_stock_status(product)
          IN  /\ status \in {"OUT_OF_STOCK", "LOW_STOCK", "OVERSTOCK", "NORMAL"}
              /\ status = "OUT_OF_STOCK" <=> qty = 0
              /\ status = "LOW_STOCK" <=> (qty # 0 /\ qty <= product.minimum_stock)
              /\ status = "OVERSTOCK" <=>
                    (qty # 0 /\ qty > product.minimum_stock
                        /\ qty >= product.maximum_stock)
              /\ status = "NORMAL" <=>
                    (qty # 0 /\ qty > product.minimum_stock
                        /\ qty < product.maximum_stock)
    /\ \A d \in StockRequests({"add", "reduce", "set"}) :
          LET out == update_product_stock(d.product_id, d.operation, d.quantity)
          IN  out.result = "OK" =>
                  out.stock_status = get_stock_status(out.products[d.product_id])

\* C16 witness: a stock request has just succeeded, leaving one product
\* with stock = minimum_stock = maximum_stock > 0 and another with no stock
\* and maximum_stock = 0.
C16_Witness ==
    /\ last.op = "stock"
    /\ last.result = "OK"
    /\ \E p, r \in DOMAIN products :
          /\ products[p].stock_quantity > 0
          /\ products[p].stock_quantity = products[p].minimum_stock
          /\ products[p].stock_quantity = products[p].maximum_stock
          /\ products[r].stock_quantity = 0
          /\ products[r].maximum_stock = 0

\* C17: after every request, every product has 0 <= stock_quantity <=
\* maximum_stock.
C17_StockWithinLimitsAlways ==
    \A p \in DOMAIN products :
        products[p].stock_quantity \in 0..products[p].maximum_stock

\* C18: a product is created without stock, and every step that changes a
\* product's stock_quantity leaves the product as a successful add_stock or
\* reduce_stock call on it does.
C18_StockChangedByLedgerOnly ==
    [][ /\ \A mn, mx \in 0..MaxLimit : Product(mn, mx).stock_quantity = 0
        /\ \A p \in DOMAIN products :
              products'[p].stock_quantity # products[p].stock_quantity =>
                  \E q \in 1..MaxQty :
                      \/ add_stock(products[p], q)
                            = [error |-> "", product |-> products'[p]]
                      \/ reduce_stock(products[p], q)
                            = [error |-> "", product |-> products'[p]] ]_vars

\* C19: an update or delete request on a processed transaction is answered
\* Conflict and changes neither the transactions nor the products, while on
\* an unprocessed transaction a delete request removes it and an update
\* request is not turned down for its state.
C19_OnlyUnprocessedEditable ==
    /\ \A id \in DOMAIN txns :
          LET deleted == delete_stock_transaction(id)
          IN  IF txns[id].is_processed
              THEN /\ deleted.result = "Conflict"
                   /\ deleted.txns = txns
                   /\ deleted.products = products
                   /\ \A data \in UpdateRequests :
                         LET updated == update_stock_transaction(id, data)
                         IN  /\ updated.result = "Conflict"
                             /\ updated.txns = txns
                             /\ updated.products = products
              ELSE /\ deleted.result = "OK"
                   /\ deleted.txns = Without(txns, id)
                   /\ \A data \in UpdateRequests :
                         update_stock_transaction(id, data).result # "Conflict"

\* C19 witness: with a processed transaction in the store, a request to
\* update a processed transaction has been turned down.
C19_Witness ==
    /\ last.op = "update"
    /\ last.result = "Conflict"
    /\ \E id \in DOMAIN txns : txns[id].is_processed

\* C20: a create request with auto_process for a stock-in of quantity q > 0
\* with a positive unit cost, a fresh valid reference number and a product
\* whose stock + q does not exceed maximum_stock stores the transaction
\* processed and leaves the product with its old stock + q (and the status
\* of that stock).
C20_AutoProcessedStockIn ==
    \A d \in CreateRequests :
        LET out == create_stock_transaction(d)
        IN  (upper_tag(d.transaction_type) = "STOCK_IN" /\ d.auto_process
                /\ d.quantity > 0
                /\ d.unit_cost # None /\ d.unit_cost[1] > 0
                /\ Len(strip(d.reference_number)) >= 3
                /\ ~ReferenceExists(set_reference_number(d.reference_number))
                /\ d.product_id \in DOMAIN products
                /\ Stock(d.product_id) + d.quantity
                      <= products[d.product_id].maximum_stock) =>
                /\ out.result = "Created"
                /\ out.tid \notin DOMAIN txns
                /\ out.txns[out.tid].is_processed
                /\ out.txns[out.tid].transaction_type = "STOCK_IN"
                /\ out.txns[out.tid].quantity = d.quantity
                /\ \A id \in DOMAIN txns : out.txns[id] = txns[id]
                /\ out.products[d.product_id].stock_quantity
                      = Stock(d.product_id) + d.quantity
                /\ get_stock_status(out.products[d.product_id]) =
                      IF Stock(d.product_id) + d.quantity
                            >= products[d.product_id].maximum_stock
                      THEN "OVERSTOCK" ELSE "NORMAL"

\* C20 witness: the only stored transaction is a processed stock-in that the
\* last request, a create request, stored; the product holds its quantity
\* and is not full.
C20_Witness ==
    /\ last.op = "create"
    /\ last.result = "Created"
    /\ DOMAIN txns = {1}
    /\ txns[1].transaction_type = "STOCK_IN"
    /\ txns[1].is_processed
    /\ Stock(txns[1].product_id) = txns[1].quantity
    /\ Stock(txns[1].product_id) < products[txns[1].product_id].maximum_stock

\* C21: a create request without auto_process leaves every product as it
\* was, and when it stores a transaction it stores it unprocessed next to
\* the unchanged rows that were there.
C21_CreateLeavesStock ==
    \A d \in CreateRequests :
        LET out == create_stock_transaction(d)
        IN  ~d.auto_process =>
                /\ out.products = products
                /\ out.result # "Created" => out.txns = txns
                /\ out.result = "Created" =>
                      /\ out.tid \notin DOMAIN txns
                      /\ DOMAIN out.txns = DOMAIN txns \cup {out.tid}
                      /\ ~out.txns[out.tid].is_processed
                      /\ \A id \in DOMAIN txns : out.txns[id] = txns[id]

\* C21 witness: the only stored transaction, a stock-out within the stock
\* the product holds, has just been created and is unprocessed.
C21_Witness ==
    /\ last.op = "create"
    /\ last.result = "Created"
    /\ DOMAIN txns = {1}
    /\ txns[1].transaction_type = "STOCK_OUT"
    /\ ~txns[1].is_processed
    /\ Stock(txns[1].product_id) >= abs(txns[1].quantity)

\* The rules of validate(), and whether transaction t, seen with the given
\* product (None when the relationship is not loaded), violates a rule.
ValidationRules ==
    {"ReferenceTooShort", "QuantityZero", "UnitCostNegative", "ProductRequired",
     "StockInNotPositive", "UnitCostRequired", "StockOutNotNegative",
     "InsufficientStock", "AdjustmentZero"}

Violates(t, product, rule) ==
    LET short == product # None /\ product[1].stock_quantity < abs(t.quantity)
    IN  CASE rule = "ReferenceTooShort" -> Len(strip(t.reference_number)) < 3
          [] rule = "QuantityZero" -> t.quantity = 0
          [] rule = "UnitCostNegative" -> t.unit_cost # None /\ t.unit_cost[1] < 0
          [] rule = "ProductRequired" -> t.product_id = 0
          [] rule = "StockInNotPositive" ->
                t.transaction_type = "STOCK_IN" /\ t.quantity <= 0
          [] rule = "UnitCostRequired" ->
                t.transaction_type = "STOCK_IN"
                    /\ (t.unit_cost = None \/ t.unit_cost[1] <= 0)
          [] rule = "StockOutNotNegative" ->
                t.transaction_type = "STOCK_OUT" /\ t.quantity >= 0
          [] rule = "InsufficientStock" ->
                \/ t.transaction_type = "STOCK_OUT" /\ short
                \/ t.transaction_type = "ADJUSTMENT" /\ t.quantity < 0 /\ short
          [] rule = "AdjustmentZero" ->
                t.transaction_type = "ADJUSTMENT" /\ t.quantity = 0

\* C22: for the object a session holds, seen with or without its product,
\* validate() returns the errors of the common checks followed by those of
\* the variant, exactly one error for every rule that is violated and none
\* for any other; so the list is empty exactly when no rule is violated.
C22_ValidateAccumulates ==
    \A r \in Requests, bound \in BOOLEAN :
        sessions[r].transaction # None =>
            LET t == sessions[r].transaction[1]
                product == product_of(t, bound)
                errors == validate(t, product)
                common == StockTransaction_validate(t)
                violated == {rule \in ValidationRules : Violates(t, product, rule)}
            IN  /\ {errors[i] : i \in 1..Len(errors)} = violated
                /\ Len(errors) = Cardinality(violated)
                /\ Len(common) <= Len(errors)
                /\ SubSeq(errors, 1, Len(common)) = common
                /\ errors = <<>> <=> violated = {}

\* C22 witness: validate() has just reported both errors of a stock-in
\* constructed with a negative quantity and without a unit cost.
C22_Witness ==
    /\ last.op = "validate"
    /\ last.result = <<"StockInNotPositive", "UnitCostRequired">>
    /\ sessions[1].transaction # None
    /\ sessions[1].transaction[1].transaction_type = "STOCK_IN"
    /\ sessions[1].transaction[1].quantity < 0
    /\ sessions[1].transaction[1].unit_cost = None

\* C23: with process requests handled concurrently, every product keeps
\* 0 <= stock_quantity <= maximum_stock, and every step of a process
\* request that changes a stock applies the quantity of a transaction that
\* was stored unprocessed before the step and is processed after it (so no
\* transaction's quantity is applied twice).
C23_NoConcurrentDoubleApply ==
    [][ /\ \A p \in DOMAIN products' :
              /\ 0 <= products'[p].stock_quantity
              /\ products'[p].stock_quantity <= products'[p].maximum_stock
        /\ \A p \in DOMAIN products :
              (last'.op = "process"
                  /\ products'[p].stock_quantity # products[p].stock_quantity) =>
                  \E id \in DOMAIN txns :
                      /\ BecameProcessed(id)
                      /\ txns[id].product_id = p
                      /\ products'[p].stock_quantity
                            = products[p].stock_quantity + txns[id].quantity ]_vars

\* The unit costs that are no cost: missing, zero, negative.
NoCosts == {None, Some(0), Some(0 - 1)}

\* C24: a stock-in without a positive unit cost is refused by the
\* constructor (negative cost) or fails validate() with the unit-cost error
\* (missing or zero cost); a create request for it stores nothing and an
\* update request that takes the cost away from a stored stock-in changes
\* nothing, so every stored stock-in, processed or not, has a positive unit
\* cost.  A stock-out or adjustment is constructed without a unit cost,
\* validate() reports no unit-cost error for a stored one, and processing it
\* succeeds exactly when the stock allows it.
C24_UnitCostForStockInOnly ==
    /\ \A q \in QtyInputs, c \in NoCosts :
          LET built == create_transaction("STOCK_IN", <<"t", "x", "1">>, 1, q, c)
          IN  built.error = "" =>
                  /\ c \in {None, Some(0)}
                  /\ Reports(validate(built.transaction[1], None), "UnitCostRequired")
    /\ \A d \in CreateRequests :
          LET out == create_stock_transaction(d)
          IN  /\ upper_tag(d.transaction_type) = "STOCK_IN" =>
                    \A c \in NoCosts :
                        LET refused == create_stock_transaction([d EXCEPT !.unit_cost = c])
                        IN  refused.txns = txns /\ refused.products = products
              /\ (upper_tag(d.transaction_type) \in {"STOCK_OUT", "ADJUSTMENT"}
                      /\ out.built # None) =>
                    out.built[1].unit_cost = None
    /\ \A id \in DOMAIN txns :
          LET t == txns[id]
              out == process_stock_transaction(id)
              errors == validate(t, product_of(t, TRUE))
          IN  IF t.transaction_type = "STOCK_IN"
              THEN /\ t.unit_cost # None
                   /\ t.unit_cost[1] > 0
                   /\ \A data \in UpdateRequests :
                         ("unit_cost" \in data.keys /\ data.unit_cost \in NoCosts) =>
                             update_stock_transaction(id, data).txns = txns
              ELSE /\ ~Reports(errors, "UnitCostRequired")
                   /\ ~Reports(errors, "UnitCostNegative")
                   /\ ~t.is_processed =>
                         (out.result = "OK" <=>
                             IF t.quantity < 0
                             THEN Stock(t.product_id) >= abs(t.quantity)
                             ELSE Stock(t.product_id) + t.quantity
                                      <= products[t.product_id].maximum_stock)

\* C24 witness: a create request for a stock-in has just been refused for
\* its unit cost, while a stock-out is stored processed.
C24_Witness ==
    /\ last.op = "create"
    /\ last.result = "UnitCostRequired"
    /\ \E id \in DOMAIN txns :
          txns[id].transaction_type = "STOCK_OUT" /\ txns[id].is_processed

\* C28: whatever an update request carries, it leaves every product and
\* every other transaction as they were, removes and adds no row, and can
\* differ on the row it names only in notes, processed_by and unit_cost.
C28_UpdateFrame ==
    \A id \in DOMAIN txns, data \in EditRequests :
        LET t == txns[id]
            out == update_stock_transaction(id, data)
        IN  /\ out.products = products
            /\ DOMAIN out.txns = DOMAIN txns
            /\ \A other \in DOMAIN txns \ {id} : out.txns[other] = txns[other]
            /\ out.txns[id].transaction_type = t.transaction_type
            /\ out.txns[id].reference_number = t.reference_number
            /\ out.txns[id].product_id = t.product_id
            /\ out.txns[id].quantity = t.quantity
            /\ out.txns[id].is_processed = t.is_processed
            /\ [out.txns[id] EXCEPT !.notes = t.notes,
                                    !.processed_by = t.processed_by,
                                    !.unit_cost = t.unit_cost] = t

\* C28 witness: an update request has just succeeded, and an unprocessed
\* stock-out carries notes, a processed_by and a unit cost, none of which it
\* had as constructed, next to another transaction.
C28_Witness ==
    /\ last.op = "update"
    /\ last.result = "OK"
    /\ \E id, other \in DOMAIN txns :
          /\ id # other
          /\ txns[id].transaction_type = "STOCK_OUT"
          /\ ~txns[id].is_processed
          /\ txns[id].notes = Some(<<"n">>)
          /\ txns[id].processed_by = Some(<<"u">>)
          /\ txns[id].unit_cost = Some(MaxQty)

\* C25: process_transaction on a processed transaction fails with
\* AlreadyProcessed, never with ValidationFailed, whether or not validate()
\* would now report errors for it; the process request answers the same.
C25_ProcessedCheckedFirst ==
    \A id \in DOMAIN txns :
        LET t == txns[id]
            r == process_transaction(t, product_of(t, TRUE))
        IN  /\ t.is_processed =>
                  /\ r.error = "AlreadyProcessed"
                  /\ process_stock_transaction(id).result = "AlreadyProcessed"
            /\ r.error = "ValidationFailed" =>
                  ~t.is_processed /\ validate(t, product_of(t, TRUE)) # <<>>

\* C25 witness: a processed stock-out, whose product no longer holds what
\* it took, has just been asked to be processed again.
C25_Witness ==
    /\ last.op = "process"
    /\ last.result = "AlreadyProcessed"
    /\ \E id \in DOMAIN txns :
          LET t == txns[id]
          IN  /\ t.transaction_type = "STOCK_OUT"
              /\ t.is_processed
              /\ Reports(validate(t, product_of(t, TRUE)), "InsufficientStock")

\* C26: a create request with auto_process whose transaction is stored but
\* whose processing fails is answered with a failure that carries the error
\* of process_transaction; the products are unchanged, and the store holds
\* exactly what the same request without auto_process leaves: the new row,
\* unprocessed, to be processed by a later request like any other.  A
\* create request with auto_process is answered Created only when the row
\* it stored is processed.
C26_FailedAutoProcessKeepsRow ==
    \A d \in CreateRequests :
        d.auto_process =>
            LET out == create_stock_transaction(d)
                plain == create_stock_transaction([d EXCEPT !.auto_process = FALSE])
            IN  /\ out.result = "ProcessingFailed" =>
                      /\ out.error \in {"ValidationFailed", "CapacityExceeded",
                                        "InsufficientStock"}
                      /\ out.products = products
                      /\ plain.result = "Created"
                      /\ out.txns = plain.txns
                      /\ out.tid \in DOMAIN out.txns \ DOMAIN txns
                      /\ ~out.txns[out.tid].is_processed
                      /\ process_transaction(out.txns[out.tid],
                                             product_of(out.txns[out.tid], TRUE)).error
                            = out.error
                /\ out.result = "Created" => out.txns[out.tid].is_processed
                /\ plain.result = "Created" =>
                      out.result \in {"Created", "ProcessingFailed"}

\* C26 witness: a create request with auto_process has just failed in
\* processing for lack of capacity, and the stock-in it created is the only
\* stored transaction, unprocessed.
C26_Witness ==
    /\ last.op = "create"
    /\ last.result = "ProcessingFailed"
    /\ last.error = "CapacityExceeded"
    /\ DOMAIN txns = {1}
    /\ txns[1].transaction_type = "STOCK_IN"
    /\ ~txns[1].is_processed

\* The sum of the stored signed quantities of the transactions with the
\* given ids that are processed and belong to product p.
RECURSIVE ProcessedQuantity(_, _)
ProcessedQuantity(p, ids) ==
    IF ids = {} THEN 0
    ELSE LET id == CHOOSE i \in ids : TRUE
             own == IF txns[id].is_processed /\ txns[id].product_id = p
                    THEN txns[id].quantity ELSE 0
         IN  own + ProcessedQuantity(p, ids \ {id})

\* C27: when only transaction requests are made, the stock of every product
\* is the sum of the stored signed quantities of its processed transactions.
C27_StockIsProcessedSum ==
    \A p \in DOMAIN products :
        products[p].stock_quantity = ProcessedQuantity(p, DOMAIN txns)

\* C27 witness: an increase and a decrease of different sizes are both
\* processed and the product holds their difference.
C27_Witness ==
    \E a, b \in DOMAIN txns :
        /\ txns[a].is_processed /\ txns[b].is_processed
        /\ txns[a].quantity = MaxQty
        /\ txns[b].quantity = 0 - 1
        /\ txns[a].product_id = txns[b].product_id
        /\ Stock(txns[a].product_id) = MaxQty - 1

\* C29: every stored transaction references a product that exists: a
\* request to delete a product that has a transaction, processed or not, is
\* answered Conflict and changes nothing, and a create request that names a
\* product that does not exist stores nothing.
C29_TransactionsKeepTheirProduct ==
    /\ \A id \in DOMAIN txns : txns[id].product_id \in DOMAIN products
    /\ \A p \in DOMAIN products :
          LET out == delete_product(p)
          IN  IF \E id \in DOMAIN txns : txns[id].product_id = p
              THEN /\ out.result = "Conflict"
                   /\ out.products = products
                   /\ out.txns = txns
              ELSE /\ out.result = "OK"
                   /\ DOMAIN out.products = DOMAIN products \ {p}
    /\ \A d \in PlainRequests, p \in PidInputs \ DOMAIN products :
          LET out == create_stock_transaction([d EXCEPT !.product_id = p])
          IN  out.result \in {"NotFound", "Conflict"} /\ out.txns = txns

\* C29 witness: after one product was deleted, a request to delete the other
\* one, which has a processed and an unprocessed transaction, has just been
\* turned down.
C29_Witness ==
    /\ last.op = "remove"
    /\ last.result = "Conflict"
    /\ Cardinality(DOMAIN products) = LedgerProducts - 1
    /\ \E a, b \in DOMAIN txns : txns[a].is_processed /\ ~txns[b].is_processed

\* C30: a process request leaves every product other than the one the
\* transaction is bound to, and every other transaction, as they were; of
\* its own product it can change only stock_quantity and of its own row
\* only is_processed; when it fails it changes nothing at all.
C30_ProcessFrame ==
    \A id \in DOMAIN txns :
        LET t == txns[id]
            out == process_stock_transaction(id)
        IN  /\ DOMAIN out.products = DOMAIN products
            /\ DOMAIN out.txns = DOMAIN txns
            /\ \A p \in DOMAIN products \ {t.product_id} :
                  out.products[p] = products[p]
            /\ [out.products[t.product_id] EXCEPT
                   !.stock_quantity = Stock(t.product_id)] = products[t.product_id]
            /\ \A other \in DOMAIN txns \ {id} : out.txns[other] = txns[other]
            /\ [out.txns[id] EXCEPT !.is_processed = t.is_processed] = t
            /\ out.result # "OK" => out.products = products /\ out.txns = txns

\* C30 witness: a process request has just succeeded while transactions of
\* two different products are stored, one processed earlier that left its
\* product with stock.
C30_Witness ==
    /\ last.op = "process"
    /\ last.result = "OK"
    /\ \E a, b \in DOMAIN txns :
          /\ txns[a].product_id # txns[b].product_id
          /\ txns[a].is_processed /\ txns[b].is_processed
          /\ Stock(txns[a].product_id) > 0
          /\ Stock(txns[b].product_id) > 0

====
